---- MODULE Spec2Model ----
(***************************************************************************)
(* pctrl: a command line tool that cycles the default PulseAudio device of *)
(* a class (input/output) and remembers the chosen device index in a file  *)
(* under /tmp.  The model follows src/src/main.rs and                      *)
(* src/src/fs_helpers.rs: one invocation of `main` is a process that walks *)
(* through the calls it makes to the device service and to the state file. *)
(***************************************************************************)
EXTENDS Integers, Sequences, FiniteSets, TLC

\* ------------------------------------------------------------------------
\* Bounds of the model
\* ------------------------------------------------------------------------
MaxDevs == 3          \* longest device list the service returns
NumApps == 1          \* running applications the service lists
IndexStride == 6      \* device indices are multiples of this (6, 12, ...)

\* ------------------------------------------------------------------------
\* Option<T>: None is the empty sequence, Some(x) a one element sequence
\* ------------------------------------------------------------------------
None == <<>>
Some(x) == <<x>>
IsSome(o) == o # None
Unwrap(o) == o[1]

\* ------------------------------------------------------------------------
\* Strings are sequences of one-character strings
\* ------------------------------------------------------------------------
Upper == << "A","B","C","D","E","F","G","H","I","J","K","L","M",
            "N","O","P","Q","R","S","T","U","V","W","X","Y","Z" >>
Lower == << "a","b","c","d","e","f","g","h","i","j","k","l","m",
            "n","o","p","q","r","s","t","u","v","w","x","y","z" >>
Digits == << "0","1","2","3","4","5","6","7","8","9" >>

ToLowerChar(c) ==
    IF \E i \in 1..Len(Upper) : Upper[i] = c
    THEN Lower[CHOOSE i \in 1..Len(Upper) : Upper[i] = c]
    ELSE c

\* String::to_lowercase
to_lowercase(s) == [i \in 1..Len(s) |-> ToLowerChar(s[i])]

\* str::contains
contains(s, pat) ==
    \E i \in 0..(Len(s) - Len(pat)) : SubSeq(s, i + 1, i + Len(pat)) = pat

\* Option<String>::unwrap_or_default
unwrap_or_default(o) == IF o = None THEN <<>> ELSE Unwrap(o)

MONITOR == << "m","o","n","i","t","o","r" >>

\* enum InputOutput
InputOutput == {"Input", "Output"}

INPUT_STATE == "/tmp/pctrl-input"
OUTPUT_STATE == "/tmp/pctrl-output"
StatePaths == {INPUT_STATE, OUTPUT_STATE}

\* both classes sharing the state file of the input class
file_path_always_input(input_output) == INPUT_STATE

\* the match at the head of read_device_index and of write_device_index
file_path(input_output) ==
    IF input_output = "Input" THEN INPUT_STATE ELSE OUTPUT_STATE

\* ------------------------------------------------------------------------
\* fs_helpers.rs: the state file holds the index as decimal text
\* ------------------------------------------------------------------------
IsDigit(c) == \E i \in 1..Len(Digits) : Digits[i] = c
DigitVal(c) == (CHOOSE i \in 1..Len(Digits) : Digits[i] = c) - 1

RECURSIVE DecimalValue(_)
DecimalValue(s) ==
    IF s = <<>> THEN 0
    ELSE 10 * DecimalValue(SubSeq(s, 1, Len(s) - 1)) + DigitVal(s[Len(s)])

\* content.parse::<u32>().ok(): an optional '+', then one or more digits
\* (the contents of the model stay far below the u32 range)
parse_u32(s) ==
    LET body == IF s # <<>> /\ s[1] = "+" THEN Tail(s) ELSE s
    IN  IF body = <<>> \/ \E i \in 1..Len(body) : ~IsDigit(body[i])
        THEN None
        ELSE Some(DecimalValue(body))

\* fs_helpers.rs 9-27 (opening the file creates an empty one when there is
\* none, which reads as the empty string)
read_device_index(files, input_output) == parse_u32(files[file_path(input_output)])

\* File::write_all on a file just opened by File::create: the bytes go to
\* offset 0 of the file as it is now and replace what is there
write_all(content, bytes) ==
    bytes \o SubSeq(content, Len(bytes) + 1, Len(content))

\* u32::to_string
RECURSIVE to_string(_)
to_string(n) ==
    IF n < 10 THEN << Digits[n + 1] >>
    ELSE to_string(n \div 10) \o << Digits[(n % 10) + 1] >>

\* ------------------------------------------------------------------------
\* The inputs of the model
\* ------------------------------------------------------------------------
\* the service numbers the devices of a list of n devices IndexStride,
\* 2 * IndexStride, ...; an index beyond the list names no device
IndexOf(k) == IndexStride * k
IndexPool == { IndexOf(k) : k \in 1..MaxDevs }
StaleIndex == IndexOf(MaxDevs + 1)

DevNames ==
    { None,
      Some(<< "u","s","b" >>),
      Some(<< "u",".","M","o","n","i","t","o","r" >>) }

\* device lists of up to MaxDevs devices, with any names, all muted or all
\* not muted, listed by rising or by falling index
Catalogs ==
    UNION { { [k \in 1..n |-> [index |-> IF up THEN IndexOf(k) ELSE IndexOf(n + 1 - k),
                               name |-> names[k],
                               mute |-> m]] :
                names \in [1..n -> DevNames], m \in BOOLEAN, up \in BOOLEAN } :
            n \in 0..MaxDevs }

StoreContents ==
    { <<>>, << "6", "x" >> } \cup { to_string(i) : i \in IndexPool \cup {StaleIndex} }

Actions == {"Next", "Prev", "Mute", "Inc", "Dec"}
Statuses == {"Muted", "Volume", "Name", "Desc"}
CliArgs == [action : {None} \cup {Some(a) : a \in Actions},
            status : {None} \cup {Some(s) : s \in Statuses}]

SeqProcs == {1}

VARIABLES
    catalog,    \* the device list of the service of the target class
    store,      \* contents of /tmp/pctrl-input and /tmp/pctrl-output
    target,     \* cli.target of the invocations
    pc,         \* position of each invocation in main
    cli,        \* parsed command line of each invocation
    idx,        \* result of read_device_index
    prev_device,
    next_device,
    moved,      \* applications already moved by set_default
    exit,       \* "none" while running, then "ok", "err" or "panic"
    out,        \* what the invocation printed on stdout
    log,        \* service calls and store writes of the invocation
    store0,     \* the store as it was when the invocation started
    catalog0,   \* the device list as it was when the invocation started
    run,        \* the successful cycling invocations in a row
    last_written \* the text the latest write_all put into a state file

vars == << catalog, store, target, pc, cli, idx, prev_device, next_device, moved,
           exit, out, log, store0, catalog0, run, last_written >>

\* ------------------------------------------------------------------------
\* Pure helpers of main.rs
\* ------------------------------------------------------------------------
\* ignore_monitor_devs without the to_lowercase
ignore_monitor_devs_case_sensitive(d) ==
    ~contains(unwrap_or_default(d.name), MONITOR)

\* fn ignore_monitor_devs: keep a device unless its lowercased name
\* contains "monitor"
ignore_monitor_devs(d) ==
    ~contains(to_lowercase(unwrap_or_default(d.name)), MONITOR)

\* controller.get_device_by_index(idx) against the device list of the service
get_device_by_index(devices, i) ==
    IF \E k \in 1..Len(devices) : devices[k].index = i
    THEN Some(devices[CHOOSE k \in 1..Len(devices) : devices[k].index = i])
    ELSE None

\* Iterator::next / slice::first
first(s) == IF s = <<>> THEN None ELSE Some(Head(s))

\* Iterator::rev
rev(s) == [i \in 1..Len(s) |-> s[Len(s) + 1 - i]]

\* Iterator::skip(1)
skip1(s) == IF s = <<>> THEN <<>> ELSE Tail(s)

\* .skip_while(|d| d.index != prev.index)
RECURSIVE skip_while_not(_, _)
skip_while_not(s, i) ==
    IF s = <<>> THEN <<>>
    ELSE IF Head(s).index # i THEN skip_while_not(Tail(s), i)
    ELSE s

\* the stale branch of get_default_device: first device that is no monitor
first_eligible(devices) == first(SelectSeq(devices, ignore_monitor_devs))

\* the branch of get_default_device without stored index: devices.first()
first_listed(devices) == first(devices)

\* the chain of next_dev with skip(2) in place of skip(1)
select_next_skip_two(devices, direction, prevIndex) ==
    LET iter == IF direction = "Forward" THEN devices ELSE rev(devices)
        taken == iter \o iter
    IN  first(SelectSeq(skip1(skip1(skip_while_not(taken, prevIndex))),
                        ignore_monitor_devs))

\* the chain of next_dev without the skip(1)
select_next_no_skip(devices, direction, prevIndex) ==
    LET iter == IF direction = "Forward" THEN devices ELSE rev(devices)
        taken == iter \o iter
    IN  first(SelectSeq(skip_while_not(taken, prevIndex), ignore_monitor_devs))

\* the iterator chain of next_dev (main.rs 137-154), before the expect
select_next(devices, direction, prevIndex) ==
    LET iter == IF direction = "Forward" THEN devices ELSE rev(devices)
        taken == iter \o iter      \* .cycle().take(devices.len() * 2)
    IN  first(SelectSeq(skip1(skip_while_not(taken, prevIndex)),
                        ignore_monitor_devs))

\* both actions walking forward
DirectionOf_always_forward(action) == "Forward"

DirectionOf(action) == IF action = "Next" THEN "Forward" ELSE "Backward"

\* the service applies set_device_mute_by_index to its device
set_mute(devices, i, m) ==
    [k \in 1..Len(devices) |->
        IF devices[k].index = i THEN [devices[k] EXCEPT !.mute = m]
        ELSE devices[k]]

\* ------------------------------------------------------------------------
\* Records of the effects of an invocation
\* ------------------------------------------------------------------------
MoveCall(app, i)    == [op |-> "move_app_by_index", app |-> app, dev |-> i]
SetDefaultCall(nm)  == [op |-> "set_default_device", name |-> nm]
MuteCall(i, m)      == [op |-> "set_device_mute_by_index", dev |-> i, mute |-> m]
IncCall(i)          == [op |-> "increase_device_volume_by_percent", dev |-> i]
DecCall(i)          == [op |-> "decrease_device_volume_by_percent", dev |-> i]
WriteCall(c, i, by) == [op |-> "write_device_index", class |-> c, dev |-> i, by |-> by]

NoDevice == [index |-> 0, name |-> None, mute |-> FALSE]

\* ------------------------------------------------------------------------
\* Initial states: any device list, any content of the state files
\* ------------------------------------------------------------------------
InitOf(procs) ==
    /\ catalog \in Catalogs
    /\ target \in InputOutput
    /\ \E c \in StoreContents :
          store = [f \in StatePaths |->
                      IF f = file_path(target) THEN c ELSE to_string(IndexOf(1))]
    /\ pc = [p \in procs |-> "idle"]
    /\ cli = [p \in procs |-> [action |-> None, status |-> None]]
    /\ idx = [p \in procs |-> None]
    /\ prev_device = [p \in procs |-> NoDevice]
    /\ next_device = [p \in procs |-> NoDevice]
    /\ moved = [p \in procs |-> 0]
    /\ exit = [p \in procs |-> "none"]
    /\ out = [p \in procs |-> None]
    /\ log = [p \in procs |-> <<>>]
    /\ store0 = [p \in procs |-> store]
    /\ catalog0 = [p \in procs |-> catalog]
    /\ run = [start |-> store[file_path(target)], acts |-> <<>>]
    /\ last_written = None

Init == InitOf(SeqProcs)

\* ------------------------------------------------------------------------
\* End of an invocation: the exit status, and the record of the cycling
\* invocations that ran one after the other
\* ------------------------------------------------------------------------
MaxRun == MaxDevs

Cycling(p) ==
    /\ cli[p].action \in {Some("Next"), Some("Prev")}
    /\ cli[p].status = None

Finish(p, code) ==
    /\ pc' = [pc EXCEPT ![p] = "done"]
    /\ exit' = [exit EXCEPT ![p] = code]
    /\ run' = IF code = "ok" /\ Cycling(p) /\ Len(run.acts) < MaxRun
              THEN [run EXCEPT !.acts = Append(@, Unwrap(cli[p].action))]
              ELSE [start |-> store[file_path(target)], acts |-> <<>>]

Goto(p, label) ==
    /\ pc' = [pc EXCEPT ![p] = label]
    /\ UNCHANGED << exit, run >>

\* ------------------------------------------------------------------------
\* main (main.rs 164-224)
\* ------------------------------------------------------------------------
\* the tool is started: Cli::parse
Start(p, args) ==
    /\ cli' = [cli EXCEPT ![p] = args]
    /\ pc' = [pc EXCEPT ![p] = "main"]
    /\ exit' = [exit EXCEPT ![p] = "none"]
    /\ idx' = [idx EXCEPT ![p] = None]
    /\ prev_device' = [prev_device EXCEPT ![p] = NoDevice]
    /\ next_device' = [next_device EXCEPT ![p] = NoDevice]
    /\ moved' = [moved EXCEPT ![p] = 0]
    /\ out' = [out EXCEPT ![p] = None]
    /\ log' = [log EXCEPT ![p] = <<>>]
    /\ store0' = [store0 EXCEPT ![p] = store]
    /\ catalog0' = [catalog0 EXCEPT ![p] = catalog]
    /\ UNCHANGED << catalog, store, target, run, last_written >>

\* the tool is run with any arguments
Invoke(p) ==
    /\ pc[p] = "idle"
    /\ \E args \in CliArgs : Start(p, args)

\* after a cycling invocation that succeeded the tool is run again with
\* --action next
InvokeAgain(p) ==
    /\ pc[p] = "done"
    /\ run.acts # <<>>
    /\ Start(p, [action |-> Some("Next"), status |-> None])

\* main without the early return on an empty device list
ListDevices_no_early_return(p) ==
    /\ pc[p] = "main"
    /\ Goto(p, "gdd_read")
    /\ UNCHANGED << catalog, store, target, cli, idx, prev_device, next_device,
                    moved, out, log, store0, catalog0, last_written >>

\* main.rs 181-189: list the devices, leave when there are none
ListDevices(p) ==
    /\ pc[p] = "main"
    /\ IF catalog = <<>>
       THEN Finish(p, "ok")
       ELSE Goto(p, "gdd_read")
    /\ UNCHANGED << catalog, store, target, cli, idx, prev_device, next_device,
                    moved, out, log, store0, catalog0, last_written >>

\* get_default_device, main.rs 36: read_device_index
ReadIndex(p) ==
    /\ pc[p] = "gdd_read"
    /\ idx' = [idx EXCEPT ![p] = read_device_index(store, target)]
    /\ Goto(p, "gdd_resolve")
    /\ UNCHANGED << catalog, store, target, cli, prev_device, next_device,
                    moved, out, log, store0, catalog0, last_written >>

\* get_default_device writing the index back also when it names a device
ResolveFound_writes_back(p) ==
    /\ pc[p] = "gdd_resolve"
    /\ IsSome(idx[p])
    /\ IsSome(get_device_by_index(catalog, Unwrap(idx[p])))
    /\ prev_device' = [prev_device EXCEPT
                          ![p] = Unwrap(get_device_by_index(catalog, Unwrap(idx[p])))]
    /\ Goto(p, "gdd_create")
    /\ UNCHANGED << catalog, store, target, cli, idx, next_device,
                    moved, out, log, store0, catalog0, last_written >>

\* get_default_device, main.rs 37-39: the stored index names a device
ResolveFound(p) ==
    /\ pc[p] = "gdd_resolve"
    /\ IsSome(idx[p])
    /\ IsSome(get_device_by_index(catalog, Unwrap(idx[p])))
    /\ prev_device' = [prev_device EXCEPT
                          ![p] = Unwrap(get_device_by_index(catalog, Unwrap(idx[p])))]
    /\ Goto(p, "dispatch")
    /\ UNCHANGED << catalog, store, target, cli, idx, next_device,
                    moved, out, log, store0, catalog0, last_written >>

\* get_default_device trusting a stored index that names no device
ResolveStale_trusts_index(p) ==
    /\ pc[p] = "gdd_resolve"
    /\ IsSome(idx[p])
    /\ get_device_by_index(catalog, Unwrap(idx[p])) = None
    /\ prev_device' = [prev_device EXCEPT
                          ![p] = [index |-> Unwrap(idx[p]), name |-> None, mute |-> FALSE]]
    /\ Goto(p, "dispatch")
    /\ UNCHANGED << catalog, store, target, cli, idx, next_device,
                    moved, out, log, store0, catalog0, last_written >>

\* get_default_device, main.rs 40-52: the stored index names no device
ResolveStale(p) ==
    /\ pc[p] = "gdd_resolve"
    /\ IsSome(idx[p])
    /\ get_device_by_index(catalog, Unwrap(idx[p])) = None
    /\ LET dev == first_eligible(catalog)
       IN  IF dev = None
           THEN /\ Finish(p, "err")
                /\ UNCHANGED prev_device
           ELSE /\ prev_device' = [prev_device EXCEPT ![p] = Unwrap(dev)]
                /\ Goto(p, "gdd_create")
    /\ UNCHANGED << catalog, store, target, cli, idx, next_device,
                    moved, out, log, store0, catalog0, last_written >>

\* get_default_device, main.rs 53-62: no index is stored
ResolveUnset(p) ==
    /\ pc[p] = "gdd_resolve"
    /\ idx[p] = None
    /\ LET dev == first_listed(catalog)
       IN  IF dev = None
           THEN /\ Finish(p, "err")
                /\ UNCHANGED prev_device
           ELSE /\ prev_device' = [prev_device EXCEPT ![p] = Unwrap(dev)]
                /\ Goto(p, "gdd_create")
    /\ UNCHANGED << catalog, store, target, cli, idx, next_device,
                    moved, out, log, store0, catalog0, last_written >>

\* write_device_index, fs_helpers.rs 35: File::create truncates the file
WriteCreate(p) ==
    /\ pc[p] \in {"gdd_create", "nd_create"}
    /\ store' = [store EXCEPT ![file_path(target)] = <<>>]
    /\ Goto(p, IF pc[p] = "gdd_create" THEN "gdd_write_all" ELSE "nd_write_all")
    /\ UNCHANGED << catalog, target, cli, idx, prev_device, next_device,
                    moved, out, log, store0, catalog0, last_written >>

\* write_device_index, fs_helpers.rs 37: write_all of the decimal index;
\* main.rs 50 and 60 write dev.index, main.rs 160 next_device.index
WriteAll(p) ==
    /\ pc[p] \in {"gdd_write_all", "nd_write_all"}
    /\ LET by == IF pc[p] = "gdd_write_all" THEN "get_default_device" ELSE "next_dev"
           index == IF pc[p] = "gdd_write_all" THEN prev_device[p].index
                    ELSE next_device[p].index
       IN  /\ store' = [store EXCEPT ![file_path(target)] = write_all(@, to_string(index))]
           /\ log' = [log EXCEPT ![p] = Append(@, WriteCall(target, index, by))]
           /\ last_written' = Some(to_string(index))
    /\ Goto(p, IF pc[p] = "gdd_write_all" THEN "dispatch" ELSE "status")
    /\ UNCHANGED << catalog, target, cli, idx, prev_device, next_device,
                    moved, out, store0, catalog0 >>

\* next_dev, main.rs 135-155: list the devices again and pick the next one;
\* the expect panics when the chain yields nothing
NextDev(p) ==
    /\ pc[p] = "dispatch"
    /\ cli[p].action \in {Some("Next"), Some("Prev")}
    /\ LET found == select_next(catalog, DirectionOf(Unwrap(cli[p].action)),
                                prev_device[p].index)
       IN  IF found = None
           THEN /\ Finish(p, "panic")
                /\ UNCHANGED next_device
           ELSE /\ next_device' = [next_device EXCEPT ![p] = Unwrap(found)]
                /\ Goto(p, IF NumApps = 0 THEN "nd_set_default" ELSE "nd_move")
    /\ UNCHANGED << catalog, store, target, cli, idx, prev_device,
                    moved, out, log, store0, catalog0, last_written >>

\* SetDefault::set_default, main.rs 113-118: move one more application
MoveApp(p) ==
    /\ pc[p] = "nd_move"
    /\ moved[p] < NumApps
    /\ moved' = [moved EXCEPT ![p] = @ + 1]
    /\ log' = [log EXCEPT ![p] = Append(@, MoveCall(moved[p] + 1, next_device[p].index))]
    /\ Goto(p, IF moved[p] + 1 = NumApps THEN "nd_set_default" ELSE "nd_move")
    /\ UNCHANGED << catalog, store, target, cli, idx, prev_device, next_device,
                    out, store0, catalog0, last_written >>

\* next_dev, main.rs 159: set_default_device by name
SetDefaultDevice(p) ==
    /\ pc[p] = "nd_set_default"
    /\ log' = [log EXCEPT
                 ![p] = Append(@, SetDefaultCall(unwrap_or_default(next_device[p].name)))]
    /\ Goto(p, "nd_create")
    /\ UNCHANGED << catalog, store, target, cli, idx, prev_device, next_device,
                    moved, out, store0, catalog0, last_written >>

\* the mute action passing the flag of the device as it is
Mute_flag_not_negated(p) ==
    /\ pc[p] = "dispatch"
    /\ cli[p].action = Some("Mute")
    /\ catalog' = set_mute(catalog, prev_device[p].index, prev_device[p].mute)
    /\ log' = [log EXCEPT
                 ![p] = Append(@, MuteCall(prev_device[p].index, prev_device[p].mute))]
    /\ Goto(p, "status")
    /\ UNCHANGED << store, target, cli, idx, prev_device, next_device,
                    moved, out, store0, catalog0, last_written >>

\* main.rs 200-202
Mute(p) ==
    /\ pc[p] = "dispatch"
    /\ cli[p].action = Some("Mute")
    /\ catalog' = set_mute(catalog, prev_device[p].index, ~prev_device[p].mute)
    /\ log' = [log EXCEPT
                 ![p] = Append(@, MuteCall(prev_device[p].index, ~prev_device[p].mute))]
    /\ Goto(p, "status")
    /\ UNCHANGED << store, target, cli, idx, prev_device, next_device,
                    moved, out, store0, catalog0, last_written >>

\* main.rs 203-205
Inc(p) ==
    /\ pc[p] = "dispatch"
    /\ cli[p].action = Some("Inc")
    /\ log' = [log EXCEPT ![p] = Append(@, IncCall(prev_device[p].index))]
    /\ Goto(p, "status")
    /\ UNCHANGED << catalog, store, target, cli, idx, prev_device, next_device,
                    moved, out, store0, catalog0, last_written >>

\* main.rs 206-208
Dec(p) ==
    /\ pc[p] = "dispatch"
    /\ cli[p].action = Some("Dec")
    /\ log' = [log EXCEPT ![p] = Append(@, DecCall(prev_device[p].index))]
    /\ Goto(p, "status")
    /\ UNCHANGED << catalog, store, target, cli, idx, prev_device, next_device,
                    moved, out, store0, catalog0, last_written >>

\* main.rs 209
NoAction(p) ==
    /\ pc[p] = "dispatch"
    /\ cli[p].action = None
    /\ Goto(p, "status")
    /\ UNCHANGED << catalog, store, target, cli, idx, prev_device, next_device,
                    moved, out, log, store0, catalog0, last_written >>

\* main.rs 212, 223: no status was asked for
NoStatus(p) ==
    /\ pc[p] = "status"
    /\ cli[p].status = None
    /\ Finish(p, "ok")
    /\ UNCHANGED << catalog, store, target, cli, idx, prev_device, next_device,
                    moved, out, log, store0, catalog0, last_written >>

\* main.rs 213: the status query reads the stored index again
StatusRead(p) ==
    /\ pc[p] = "status"
    /\ cli[p].status # None
    /\ idx' = [idx EXCEPT ![p] = read_device_index(store, target)]
    /\ Goto(p, "status_print")
    /\ UNCHANGED << catalog, store, target, cli, prev_device, next_device,
                    moved, out, log, store0, catalog0, last_written >>

\* main.rs 214-220: dev.unwrap() panics without an index, the lookup error
\* is returned from main, otherwise one attribute is printed
StatusPrint(p) ==
    /\ pc[p] = "status_print"
    /\ IF idx[p] = None
       THEN /\ Finish(p, "panic")
            /\ UNCHANGED out
       ELSE LET info == get_device_by_index(catalog, Unwrap(idx[p]))
            IN  IF info = None
                THEN /\ Finish(p, "err")
                     /\ UNCHANGED out
                ELSE /\ out' = [out EXCEPT
                                  ![p] = Some([attr |-> Unwrap(cli[p].status),
                                               dev |-> Unwrap(info).index])]
                     /\ Finish(p, "ok")
    /\ UNCHANGED << catalog, store, target, cli, idx, prev_device, next_device,
                    moved, log, store0, catalog0, last_written >>

Step(p) ==
    \/ Invoke(p)
    \/ InvokeAgain(p)
    \/ ListDevices(p)
    \/ ReadIndex(p)
    \/ ResolveFound(p)
    \/ ResolveStale(p)
    \/ ResolveUnset(p)
    \/ WriteCreate(p)
    \/ WriteAll(p)
    \/ NextDev(p)
    \/ MoveApp(p)
    \/ SetDefaultDevice(p)
    \/ Mute(p)
    \/ Inc(p)
    \/ Dec(p)
    \/ NoAction(p)
    \/ NoStatus(p)
    \/ StatusRead(p)
    \/ StatusPrint(p)

Next == \E p \in SeqProcs : Step(p)

Spec == Init /\ [][Next]_vars

\* ------------------------------------------------------------------------
\* Service calls that fail
\* ------------------------------------------------------------------------
FailedMoveCall(app, i) ==
    [op |-> "move_app_by_index", app |-> app, dev |-> i, err |-> TRUE]
FailedSetDefaultCall(nm) ==
    [op |-> "set_default_device", name |-> nm, err |-> TRUE]

\* SetDefault::set_default, main.rs 115: move_app_by_index returns an error
\* and the ? hands it up through next_dev (main.rs 158) and main (195, 198)
MoveAppFail(p) ==
    /\ pc[p] = "nd_move"
    /\ moved[p] < NumApps
    /\ log' = [log EXCEPT
                 ![p] = Append(@, FailedMoveCall(moved[p] + 1, next_device[p].index))]
    /\ Finish(p, "err")
    /\ UNCHANGED << catalog, store, target, cli, idx, prev_device, next_device,
                    moved, out, store0, catalog0, last_written >>

\* a failed set_default_device after which next_dev goes on to the write
SetDefaultDeviceFail_ignored(p) ==
    /\ pc[p] = "nd_set_default"
    /\ log' = [log EXCEPT
                 ![p] = Append(@, FailedSetDefaultCall(
                                     unwrap_or_default(next_device[p].name)))]
    /\ Goto(p, "nd_create")
    /\ UNCHANGED << catalog, store, target, cli, idx, prev_device, next_device,
                    moved, out, store0, catalog0, last_written >>

\* next_dev, main.rs 159: set_default_device returns an error and the ?
\* hands it up
SetDefaultDeviceFail(p) ==
    /\ pc[p] = "nd_set_default"
    /\ log' = [log EXCEPT
                 ![p] = Append(@, FailedSetDefaultCall(
                                     unwrap_or_default(next_device[p].name)))]
    /\ Finish(p, "err")
    /\ UNCHANGED << catalog, store, target, cli, idx, prev_device, next_device,
                    moved, out, store0, catalog0, last_written >>

NextFail ==
    \/ Next
    \/ \E p \in SeqProcs : MoveAppFail(p)
    \/ \E p \in SeqProcs : SetDefaultDeviceFail(p)

\* the invocations of Spec with service calls that may fail
SpecFail == Init /\ [][NextFail]_vars

\* ------------------------------------------------------------------------
\* The device list of the service changes while an invocation runs
\* ------------------------------------------------------------------------
Indices(devices) == [k \in 1..Len(devices) |-> devices[k].index]

\* between the list_devices of main.rs 181 and the end of main, and once
\* per invocation
MayChurn(p) ==
    /\ pc[p] \notin {"idle", "main", "done"}
    /\ Indices(catalog) = Indices(catalog0[p])

Remove(devices, k) ==
    [i \in 1..(Len(devices) - 1) |-> IF i < k THEN devices[i] ELSE devices[i + 1]]

\* a device is unplugged: the later list_devices (main.rs 44, 56, 135) and
\* get_device_by_index (main.rs 37, 214) calls no longer see it
DeviceDisappears(p) ==
    /\ MayChurn(p)
    /\ \E k \in 1..Len(catalog) : catalog' = Remove(catalog, k)
    /\ UNCHANGED << store, target, pc, cli, idx, prev_device, next_device, moved,
                    exit, out, log, store0, catalog0, run, last_written >>

\* a device is plugged in: the later calls see it at the end of the list
DeviceAppears(p) ==
    /\ MayChurn(p)
    /\ Len(catalog) < MaxDevs
    /\ \E nm \in DevNames :
          catalog' = Append(catalog, [index |-> StaleIndex, name |-> nm, mute |-> FALSE])
    /\ UNCHANGED << store, target, pc, cli, idx, prev_device, next_device, moved,
                    exit, out, log, store0, catalog0, run, last_written >>

NextChurn ==
    \/ Next
    \/ \E p \in SeqProcs : DeviceDisappears(p)
    \/ \E p \in SeqProcs : DeviceAppears(p)

\* the invocations of Spec on a service whose device list changes
SpecChurn == Init /\ [][NextChurn]_vars

\* ------------------------------------------------------------------------
\* Two invocations on the same class at the same time
\* ------------------------------------------------------------------------
MaxConcDevs == 2      \* longest device list of the concurrent runs

ConcProcs == {1, 2}

ConcCliArgs == [action : {Some("Next"), Some("Prev")},
                status : {None, Some("Name")}]

\* the two work on the output class, on a short list of devices that are
\* not muted (cycling reads no mute flag)
InitConc ==
    /\ InitOf(ConcProcs)
    /\ Len(catalog) <= MaxConcDevs
    /\ target = "Output"
    /\ \A k \in 1..Len(catalog) : ~catalog[k].mute

\* each of the two is started once, to cycle, with or without status query
InvokeConc(p) ==
    /\ pc[p] = "idle"
    /\ \E args \in ConcCliArgs : Start(p, args)

StepConc(p) ==
    \/ InvokeConc(p)
    \/ ListDevices(p)
    \/ ReadIndex(p)
    \/ ResolveFound(p)
    \/ ResolveStale(p)
    \/ ResolveUnset(p)
    \/ WriteCreate(p)
    \/ WriteAll(p)
    \/ NextDev(p)
    \/ MoveApp(p)
    \/ SetDefaultDevice(p)
    \/ NoStatus(p)
    \/ StatusRead(p)
    \/ StatusPrint(p)

NextConc == \E p \in ConcProcs : StepConc(p)

\* nothing orders the steps of the two invocations
SpecConc == InitConc /\ [][NextConc]_vars

\* ------------------------------------------------------------------------
\* Vocabulary of the properties
\* ------------------------------------------------------------------------
\* the name contains "monitor", whatever the case of its letters
IsMonitor(d) ==
    LET nm == unwrap_or_default(d.name)
    IN  \E i \in 1..Len(nm) :
           /\ i + Len(MONITOR) - 1 <= Len(nm)
           /\ \A j \in 1..Len(MONITOR) : ToLowerChar(nm[i + j - 1]) = MONITOR[j]

EligiblePositions(devices) == { k \in 1..Len(devices) : ~IsMonitor(devices[k]) }
NumEligible(devices) == Cardinality(EligiblePositions(devices))

InCatalog(devices, i) == \E k \in 1..Len(devices) : devices[k].index = i
DeviceAt(devices, i) == devices[CHOOSE k \in 1..Len(devices) : devices[k].index = i]

Min(S) == CHOOSE x \in S : \A y \in S : x <= y
FirstEligible(devices) == devices[Min(EligiblePositions(devices))]

\* the index the state file of the target class held when p started
StartIndex(p) == parse_u32(store0[p][file_path(target)])
StoredIndex == parse_u32(store[file_path(target)])

\* the stored index named a device of the list when p started
StartValid(p) == IsSome(StartIndex(p)) /\ InCatalog(catalog0[p], Unwrap(StartIndex(p)))
StartStale(p) == IsSome(StartIndex(p)) /\ ~InCatalog(catalog0[p], Unwrap(StartIndex(p)))
StartAbsent(p) == StartIndex(p) = None
StartDevice(p) == DeviceAt(catalog0[p], Unwrap(StartIndex(p)))

Calls(p, op) == SelectSeq(log[p], LAMBDA e : e.op = op)
CycleWrites(p) ==
    SelectSeq(log[p], LAMBDA e : e.op = "write_device_index" /\ e.by = "next_dev")

IsCycleAction(p) == cli[p].action \in {Some("Next"), Some("Prev")}

\* the device k places after (Next) or before (Prev) position pos, wrapping
StepFrom(devices, pos, action, k) ==
    LET n == Len(devices)
    IN  IF action = "Next" THEN ((pos - 1 + k) % n) + 1
        ELSE ((pos - 1 + n - (k % n)) % n) + 1

PositionOf(devices, i) == CHOOSE k \in 1..Len(devices) : devices[k].index = i

\* the first eligible device met when walking from cur in the direction of
\* the action
ExpectedTarget(devices, cur, action) ==
    LET pos == PositionOf(devices, cur.index)
        k == Min({ j \in 1..Len(devices) :
                     ~IsMonitor(devices[StepFrom(devices, pos, action, j)]) })
    IN  devices[StepFrom(devices, pos, action, k)]

\* ------------------------------------------------------------------------
\* C1: the device a Next or Prev invocation picks, sets as server default
\* and writes in the cycling step never has "monitor" in its name, in
\* whatever case.
\* ------------------------------------------------------------------------
C1_NoMonitorTarget ==
    \A p \in DOMAIN pc :
       /\ pc[p] \in {"nd_move", "nd_set_default", "nd_create", "nd_write_all"}
             => ~IsMonitor(next_device[p])
       /\ \A i \in 1..Len(log[p]) :
             /\ log[p][i].op = "set_default_device"
                   => ~IsMonitor([name |-> Some(log[p][i].name)])
             /\ (log[p][i].op = "write_device_index" /\ log[p][i].by = "next_dev")
                   => /\ InCatalog(catalog, log[p][i].dev)
                      /\ ~IsMonitor(DeviceAt(catalog, log[p][i].dev))
             /\ log[p][i].op = "move_app_by_index"
                   => ~IsMonitor(DeviceAt(catalog, log[p][i].dev))

\* a cycling invocation that started on a monitor device, walked past
\* another monitor device and wrote its target
C1_Witness ==
    \E p \in DOMAIN pc :
       /\ pc[p] = "done" /\ exit[p] = "ok"
       /\ IsCycleAction(p)
       /\ StartValid(p) /\ IsMonitor(StartDevice(p))
       /\ Len(catalog) = MaxDevs
       /\ NumEligible(catalog) = 1
       /\ Len(CycleWrites(p)) = 1
       /\ Len(Calls(p, "set_default_device")) = 1

\* ------------------------------------------------------------------------
\* C2 as stated: with N >= 2 eligible devices, N Next invocations in a row
\* from any device the stored index names bring the stored index back to
\* that device.
\* ------------------------------------------------------------------------
NextRunDone ==
    /\ pc[1] = "done"
    /\ NumEligible(catalog) >= 2
    /\ run.acts = [i \in 1..NumEligible(catalog) |-> "Next"]
    /\ IsSome(parse_u32(run.start))
    /\ InCatalog(catalog, Unwrap(parse_u32(run.start)))

C2_AnyStart ==
    NextRunDone => StoredIndex = parse_u32(run.start)

\* C2 amended: with N >= 2 eligible devices, N Next invocations in a row
\* from an eligible device named by the stored index bring the stored index
\* back to that device.
C2_EligibleStart ==
    (NextRunDone /\ ~IsMonitor(DeviceAt(catalog, Unwrap(parse_u32(run.start)))))
       => StoredIndex = parse_u32(run.start)

\* a list with a monitor device and N >= 2 eligible ones: N Next runs from
\* an eligible device ended on that device
C2_Witness ==
    /\ NextRunDone
    /\ ~IsMonitor(DeviceAt(catalog, Unwrap(parse_u32(run.start))))
    /\ NumEligible(catalog) < Len(catalog)
    /\ StoredIndex = parse_u32(run.start)

\* ------------------------------------------------------------------------
\* C3 as stated: Prev then Next, from any device the stored index names,
\* leaves the stored index and the device set as server default equal to
\* that device.
\* ------------------------------------------------------------------------
PrevNextDone ==
    /\ pc[1] = "done"
    /\ run.acts = << "Prev", "Next" >>
    /\ IsSome(parse_u32(run.start))
    /\ InCatalog(catalog, Unwrap(parse_u32(run.start)))

BackAtStart ==
    /\ StoredIndex = parse_u32(run.start)
    /\ Calls(1, "set_default_device") # <<>>
    /\ LET c == Calls(1, "set_default_device")
       IN  c[Len(c)].name
              = unwrap_or_default(DeviceAt(catalog, Unwrap(parse_u32(run.start))).name)

C3_AnyStart == PrevNextDone => BackAtStart

\* C3 amended: Prev then Next, from an eligible device the stored index
\* names, leaves the stored index and the device set as server default
\* equal to that device.
C3_EligibleStart ==
    (PrevNextDone /\ ~IsMonitor(DeviceAt(catalog, Unwrap(parse_u32(run.start)))))
       => BackAtStart

C3_Witness ==
    /\ PrevNextDone
    /\ ~IsMonitor(DeviceAt(catalog, Unwrap(parse_u32(run.start))))
    /\ NumEligible(catalog) >= 2
    /\ NumEligible(catalog) < Len(catalog)
    /\ BackAtStart

\* ------------------------------------------------------------------------
\* C4: when the stored index names a device cur and at least two devices
\* are eligible, Next picks the first eligible device after cur in list
\* order, wrapping at the end (Prev: the first before cur, wrapping at the
\* start), sets it as server default and writes its index.
\* ------------------------------------------------------------------------
C4_NextIsFirstEligibleAfter ==
    \A p \in DOMAIN pc :
       (/\ pc[p] \notin {"idle", "main", "gdd_read", "gdd_resolve", "dispatch"}
        /\ IsCycleAction(p)
        /\ StartValid(p)
        /\ NumEligible(catalog0[p]) >= 2)
       => LET want == ExpectedTarget(catalog0[p], StartDevice(p),
                                     Unwrap(cli[p].action))
          IN  /\ exit[p] \in {"none", "ok"}
              /\ next_device[p] = want
              /\ pc[p] \in {"status", "status_print", "done"} =>
                    /\ Calls(p, "set_default_device")
                          = << SetDefaultCall(unwrap_or_default(want.name)) >>
                    /\ Calls(p, "write_device_index")
                          = << WriteCall(target, want.index, "next_dev") >>
                    /\ StoredIndex = Some(want.index)
                    /\ \A i \in 1..Len(Calls(p, "move_app_by_index")) :
                          Calls(p, "move_app_by_index")[i].dev = want.index

\* the list [A, B (monitor), C] with A stored: Next ends on C
C4_Witness ==
    \E p \in DOMAIN pc :
       /\ pc[p] = "done" /\ exit[p] = "ok"
       /\ cli[p].action = Some("Next")
       /\ Len(catalog0[p]) = 3
       /\ ~IsMonitor(catalog0[p][1])
       /\ IsMonitor(catalog0[p][2])
       /\ ~IsMonitor(catalog0[p][3])
       /\ StartIndex(p) = Some(catalog0[p][1].index)
       /\ StoredIndex = Some(catalog0[p][3].index)

\* ------------------------------------------------------------------------
\* C5: with an empty device list an invocation, whatever its action and
\* status request, sets no default device, moves no application, writes no
\* state file, leaves both state files as they were and exits successfully.
\* ------------------------------------------------------------------------
C5_EmptyListNoEffect ==
    \A p \in DOMAIN pc :
       (catalog0[p] = <<>> /\ pc[p] # "idle")
       => /\ log[p] = <<>>
          /\ store = store0[p]
          /\ exit[p] \in {"none", "ok"}
          /\ pc[p] \in {"main", "done"}
          /\ pc[p] = "done" => exit[p] = "ok"

C5_Witness ==
    \E p \in DOMAIN pc :
       /\ catalog0[p] = <<>>
       /\ pc[p] = "done" /\ exit[p] = "ok"
       /\ cli[p].action = Some("Next")
       /\ cli[p].status = Some("Name")
       /\ store[file_path(target)] = to_string(StaleIndex)

\* ------------------------------------------------------------------------
\* C6: with exactly one eligible device and a stored index that names a
\* device of the list, Next or Prev does nothing: the state file is not
\* written and keeps its value, and no device is set as default.
\* ------------------------------------------------------------------------
C6_SingletonNoOp ==
    \A p \in DOMAIN pc :
       (/\ IsCycleAction(p)
        /\ StartValid(p)
        /\ NumEligible(catalog0[p]) = 1
        /\ pc[p] # "idle")
       => /\ Calls(p, "write_device_index") = <<>>
          /\ Calls(p, "set_default_device") = <<>>
          /\ store = store0[p]

\* ------------------------------------------------------------------------
\* C7: with a stored index that names no device of the list, Next or Prev
\* ends with the index of the first eligible device of the list stored.
\* ------------------------------------------------------------------------
C7_StaleEndsOnFirstEligible ==
    \A p \in DOMAIN pc :
       (/\ IsCycleAction(p)
        /\ StartStale(p)
        /\ NumEligible(catalog0[p]) >= 1
        /\ pc[p] = "done")
       => /\ exit[p] = "ok"
          /\ StoredIndex = Some(FirstEligible(catalog0[p]).index)

\* ------------------------------------------------------------------------
\* C8: with no stored index, Next and Prev both end with the first eligible
\* device of the list set as default and stored.
\* ------------------------------------------------------------------------
C8_AbsentEndsOnFirstEligible ==
    \A p \in DOMAIN pc :
       (/\ IsCycleAction(p)
        /\ StartAbsent(p)
        /\ NumEligible(catalog0[p]) >= 1
        /\ pc[p] = "done")
       => /\ exit[p] = "ok"
          /\ StoredIndex = Some(FirstEligible(catalog0[p]).index)
          /\ Calls(p, "set_default_device")
                = << SetDefaultCall(unwrap_or_default(FirstEligible(catalog0[p]).name)) >>

\* ------------------------------------------------------------------------
\* C9: when the stored index names a device cur, Mute makes exactly one
\* set-mute call, on cur with the negation of its mute flag, and Mute, Inc
\* and Dec write no state file, leave the stored index as it was, move no
\* application and set no default device.
\* ------------------------------------------------------------------------
C9_MuteAndVolumeKeepIndex ==
    \A p \in DOMAIN pc :
       (/\ cli[p].action \in {Some("Mute"), Some("Inc"), Some("Dec")}
        /\ StartValid(p)
        /\ pc[p] # "idle")
       => /\ Calls(p, "write_device_index") = <<>>
          /\ Calls(p, "move_app_by_index") = <<>>
          /\ Calls(p, "set_default_device") = <<>>
          /\ store = store0[p]
          /\ cli[p].action # Some("Mute")
                => Calls(p, "set_device_mute_by_index") = <<>>
          /\ (cli[p].action = Some("Mute")
                /\ pc[p] \in {"status", "status_print", "done"})
                => Calls(p, "set_device_mute_by_index")
                      = << MuteCall(StartDevice(p).index, ~StartDevice(p).mute) >>

\* a muted device named by the stored index was unmuted
C9_Witness ==
    \E p \in DOMAIN pc :
       /\ pc[p] = "done" /\ exit[p] = "ok"
       /\ cli[p].action = Some("Mute")
       /\ StartValid(p)
       /\ StartDevice(p).mute
       /\ Len(catalog0[p]) >= 2
       /\ Calls(p, "set_device_mute_by_index") # <<>>
       /\ ~DeviceAt(catalog, StartDevice(p).index).mute

\* ------------------------------------------------------------------------
\* C10 as stated: a status query without action changes nothing, whatever
\* the stored index: no state file write, no service call that changes
\* something, the stored index as before.
\* ------------------------------------------------------------------------
IsStatusQuery(p) == cli[p].action = None /\ cli[p].status # None /\ pc[p] # "idle"

C10_StatusQueryMutatesNothing ==
    \A p \in DOMAIN pc :
       IsStatusQuery(p) => (log[p] = <<>> /\ store = store0[p])

\* C10 amended: a status query without action changes nothing when the
\* stored index names a device of the list or the list is empty; when the
\* index is absent or names no device, its only effect is that
\* get_default_device overwrites the state file of the target class once
\* with the index of the fallback device.
C10_StatusQueryWritesOnlyFallback ==
    \A p \in DOMAIN pc :
       IsStatusQuery(p) =>
          /\ (StartValid(p) \/ catalog0[p] = <<>>)
                => (log[p] = <<>> /\ store = store0[p])
          /\ Len(log[p]) <= 1
          /\ \A i \in 1..Len(log[p]) :
                /\ log[p][i] = WriteCall(target, prev_device[p].index,
                                         "get_default_device")
                /\ InCatalog(catalog, log[p][i].dev)
          /\ catalog = catalog0[p]
          /\ \A f \in StatePaths :
                f # file_path(target) => store[f] = store0[p][f]
          /\ pc[p] = "done" =>
                store[file_path(target)]
                   = IF log[p] = <<>> THEN store0[p][file_path(target)]
                     ELSE to_string(log[p][1].dev)

\* status queries ended, one on a valid index that printed and wrote
\* nothing
C10_Witness ==
    \E p \in DOMAIN pc :
       /\ IsStatusQuery(p)
       /\ pc[p] = "done" /\ exit[p] = "ok"
       /\ StartValid(p)
       /\ out[p] = Some([attr |-> "Muted", dev |-> StartDevice(p).index])
       /\ log[p] = <<>>

\* ------------------------------------------------------------------------
\* C11: a status request while the stored index names a device that is no
\* longer in the list ends as a lookup failure with a non-zero exit and
\* prints no attribute of any other device.
\* ------------------------------------------------------------------------
C11_StaleStatusFails ==
    \A p \in DOMAIN pc :
       (/\ cli[p].status # None
        /\ StartStale(p)
        /\ catalog0[p] # <<>>
        /\ pc[p] = "done")
       => /\ exit[p] # "ok"
          /\ out[p] = None

\* ------------------------------------------------------------------------
\* C13: with a non-empty list in which no device is eligible, Next or Prev
\* takes no action (no set-default call, no application move, no state file
\* write) and exits successfully, whatever the stored index.
\* ------------------------------------------------------------------------
C13_NoEligibleNoAction ==
    \A p \in DOMAIN pc :
       (/\ IsCycleAction(p)
        /\ pc[p] # "idle"
        /\ catalog0[p] # <<>>
        /\ NumEligible(catalog0[p]) = 0)
       => /\ log[p] = <<>>
          /\ store = store0[p]
          /\ exit[p] \in {"none", "ok"}

\* ------------------------------------------------------------------------
\* C14: the current device an invocation resolves is a device of the list
\* of that invocation, whatever the list and the stored index, and no
\* action (mute, volume, cycle start, status) is applied to an index that
\* is not in the list.
\* ------------------------------------------------------------------------
Resolved(p) ==
    pc[p] \in {"gdd_create", "gdd_write_all", "dispatch", "nd_move",
               "nd_set_default", "nd_create", "nd_write_all", "status",
               "status_print"}
    \/ (pc[p] = "done" /\ prev_device[p] # NoDevice)

C14_CurrentIsInCatalog ==
    \A p \in DOMAIN pc :
       /\ Resolved(p) =>
             /\ InCatalog(catalog0[p], prev_device[p].index)
             /\ prev_device[p] = DeviceAt(catalog0[p], prev_device[p].index)
       /\ \A i \in 1..Len(log[p]) :
             log[p][i].op \in {"set_device_mute_by_index",
                               "increase_device_volume_by_percent",
                               "decrease_device_volume_by_percent",
                               "move_app_by_index", "write_device_index"}
                => InCatalog(catalog0[p], log[p][i].dev)
       /\ IsSome(out[p]) => InCatalog(catalog0[p], Unwrap(out[p]).dev)

\* a stale index, and the mute call went to a device of the list
C14_Witness ==
    \E p \in DOMAIN pc :
       /\ pc[p] = "done" /\ exit[p] = "ok"
       /\ StartStale(p)
       /\ cli[p].action = Some("Mute")
       /\ IsSome(out[p])
       /\ Len(catalog0[p]) >= 2
       /\ Calls(p, "set_device_mute_by_index") # <<>>
       /\ InCatalog(catalog0[p], Calls(p, "set_device_mute_by_index")[1].dev)

\* ------------------------------------------------------------------------
\* C15: an absent and a stale stored index are handled alike: both resolve
\* the first eligible device of the list as fallback current device and
\* write its index.
\* ------------------------------------------------------------------------
C15_FallbackIsFirstEligible ==
    \A p \in DOMAIN pc :
       (/\ StartAbsent(p) \/ StartStale(p)
        /\ NumEligible(catalog0[p]) >= 1
        /\ pc[p] \in {"dispatch", "status", "done"})
       => /\ prev_device[p] = FirstEligible(catalog0[p])
          /\ log[p] # <<>>
          /\ log[p][1] = WriteCall(target, FirstEligible(catalog0[p]).index,
                                   "get_default_device")

\* ------------------------------------------------------------------------
\* C16: whenever an invocation takes the fallback (stored index absent or
\* stale), whatever its action, by its end the fallback device has been
\* written to the state file and set as the default device of the server.
\* ------------------------------------------------------------------------
C16_FallbackPersistedAndApplied ==
    \A p \in DOMAIN pc :
       (/\ StartAbsent(p) \/ StartStale(p)
        /\ pc[p] = "done"
        /\ exit[p] = "ok"
        /\ prev_device[p] # NoDevice)
       => /\ \E i \in 1..Len(log[p]) :
                log[p][i] = WriteCall(target, prev_device[p].index,
                                      "get_default_device")
          /\ \E i \in 1..Len(log[p]) :
                log[p][i] = SetDefaultCall(unwrap_or_default(prev_device[p].name))

\* ------------------------------------------------------------------------
\* C17: an invocation writes the state file of the target class at most
\* once, and only when its action changes the selection (Next, Prev); the
\* state file of the other class is never written.
\* ------------------------------------------------------------------------
C17_AtMostOneWrite ==
    \A p \in DOMAIN pc :
       pc[p] # "idle" =>
          /\ Len(Calls(p, "write_device_index")) <= 1
          /\ Calls(p, "write_device_index") # <<>> => IsCycleAction(p)
          /\ \A i \in 1..Len(log[p]) :
                log[p][i].op = "write_device_index" => log[p][i].class = target
          /\ \A f \in StatePaths :
                f # file_path(target) => store[f] = store0[p][f]

\* C17 amended: an invocation writes the state file of the target class at
\* most once while it resolves the current device, and only when the stored
\* index is absent or names no device (whatever the action), and at most
\* once more in the cycling step of Next or Prev; the state file of the
\* other class is never written.
OwnPath == IF target = "Output" THEN "/tmp/pctrl-output" ELSE "/tmp/pctrl-input"

WritesBy(p, by) ==
    SelectSeq(log[p], LAMBDA e : e.op = "write_device_index" /\ e.by = by)

C17_OneWritePerStep ==
    \A p \in DOMAIN pc :
       pc[p] # "idle" =>
          /\ Len(WritesBy(p, "get_default_device")) <= 1
          /\ WritesBy(p, "get_default_device") # <<>>
                => (StartAbsent(p) \/ StartStale(p))
          /\ Len(WritesBy(p, "next_dev")) <= 1
          /\ WritesBy(p, "next_dev") # <<>> => IsCycleAction(p)
          /\ Len(Calls(p, "write_device_index"))
                = Len(WritesBy(p, "get_default_device")) + Len(WritesBy(p, "next_dev"))
          /\ \A i \in 1..Len(log[p]) :
                log[p][i].op = "write_device_index" => log[p][i].class = target
          /\ \A f \in StatePaths : f # OwnPath => store[f] = store0[p][f]

\* Prev on a stale index with two eligible devices: two writes, the other
\* state file as it was
C17_Witness ==
    \E p \in DOMAIN pc :
       /\ pc[p] = "done" /\ exit[p] = "ok"
       /\ cli[p].action = Some("Prev")
       /\ StartStale(p)
       /\ target = "Output"
       /\ NumEligible(catalog0[p]) >= 2
       /\ Len(Calls(p, "write_device_index")) = 2
       /\ store[INPUT_STATE] = store0[p][INPUT_STATE]

\* ------------------------------------------------------------------------
\* C12: when moving one application fails during Next or Prev, the moves of
\* the remaining applications are still attempted, the target is still set
\* as server default and written as stored index, and the exit is
\* successful.
\* ------------------------------------------------------------------------
Failed(e) == "err" \in DOMAIN e

C12_MoveFailureIsSkipped ==
    \A p \in DOMAIN pc :
       (/\ pc[p] = "done"
        /\ IsCycleAction(p)
        /\ \E i \in 1..Len(log[p]) :
              log[p][i].op = "move_app_by_index" /\ Failed(log[p][i]))
       => /\ exit[p] = "ok"
          /\ Len(Calls(p, "move_app_by_index")) = NumApps
          /\ Len(Calls(p, "set_default_device")) = 1
          /\ Len(CycleWrites(p)) = 1
          /\ StoredIndex = Some(next_device[p].index)

\* ------------------------------------------------------------------------
\* C20: in a Next or Prev invocation the index of the cycle target is
\* written only after every application move and the set-default call for
\* that target succeeded; so when the invocation exits successfully the
\* stored index is the index of the device it last set as server default,
\* and when a move or the set-default call fails the cycling step writes
\* nothing.
\* ------------------------------------------------------------------------
Before(p, i) == SubSeq(log[p], 1, i - 1)

C18_TargetFromSnapshot ==
    \A p \in DOMAIN pc :
       (/\ IsCycleAction(p)
        /\ pc[p] # "idle"
        /\ StartValid(p)
        /\ NumEligible(catalog0[p]) >= 1)
       => /\ exit[p] \in {"none", "ok"}
          /\ pc[p] \in {"nd_move", "nd_set_default", "nd_create", "nd_write_all",
                        "status", "status_print", "done"}
                => next_device[p] = ExpectedTarget(catalog0[p], StartDevice(p),
                                                   Unwrap(cli[p].action))

\* ------------------------------------------------------------------------
\* C19: two invocations on the same class running at the same time over a
\* fixed device list both complete, whatever the interleaving of their
\* steps, and the state file then holds the value of the write that came
\* last, which is the index of a device of the list.
\* ------------------------------------------------------------------------
C19_LastWriterWins ==
    (/\ \A p \in DOMAIN pc : pc[p] = "done"
     /\ NumEligible(catalog) >= 1)
    => /\ \A p \in DOMAIN pc : exit[p] = "ok"
       /\ IsSome(last_written) =>
             /\ store[OwnPath] = Unwrap(last_written)
             /\ IsSome(StoredIndex)
             /\ InCatalog(catalog, Unwrap(StoredIndex))

====
